---- MODULE Spec2Model ----
(***************************************************************************)
(* Click counter service of src/main.py: a local SQLite table              *)
(* (local_clicks) absorbing clicks from the HTTP endpoints and the bot,    *)
(* a remote libsql table (clicks), and the periodic task sync_databases    *)
(* that folds the local rows into the remote table.                        *)
(*                                                                         *)
(* Scheduling.  Every handler is an `async def` run by one asyncio event   *)
(* loop, and none of them awaits between its first statement and its       *)
(* commit; sync_databases awaits only in asyncio.sleep (line 141).  A      *)
(* handler therefore runs only while the sync task sleeps, and one pass of *)
(* the sync loop runs without any handler in between.  The pass is split   *)
(* into steps (pc) so that an exception can leave it at any statement.     *)
(***************************************************************************)
EXTENDS Integers, Sequences, FiniteSets, TLC

\* user ids seen by the model
Users == {1, 2, 3}
\* LIMIT of the snapshot query, scaled down from 100
LIMIT == 2
\* largest INTEGER a table column takes (2^63 - 1 in SQLite), scaled down
IntMax == 2
\* messages the bot receives between two passes of the sync loop
MaxBot == 1
\* the users who click through the bot, and the data of their messages
BotUsers == {1}
BotData == {"{oops", "{}", "{\"clicks\":5}"}

VARIABLES
    local,       \* table local_clicks: user_id -> [username, clicks]
    remote,      \* table clicks as remote_conn sees it
    pc,          \* where sync_databases stands
    local_rows,  \* its snapshot of local_clicks (<<>> once the pass is over:
                 \* the next pass reads it only after assigning it)
    idx,         \* index of the row the merge loop is at (0 outside the loop)
    errors,      \* whether a pass has ended in the except clause (line 140)
    resp,        \* the last answer of auth_endpoint since the sync task went to
                 \* sleep: "" (none), "ok" (200) or "rejected" (an HTTPException
                 \* or an exception)
    bot_clicks,  \* clicks handle_webapp_data has written since then
    tick0,       \* both tables as the running pass found them
    failed0,     \* tick0 of the last pass, if it broke in the merge loop
                 \* and no request changed local_clicks since
    call,        \* the arguments of a call of check_webapp_signature taken
                 \* on its own
    valid,       \* and what that call returned ("pending" before it returns)
    user_clicks, \* "clicks" in the body auth_endpoint returned (line 177), when
                 \* the last request handled since the sync task went to sleep
                 \* was such a call; NoAnswer otherwise
    merged0      \* user ids of the snapshot of the last pass, if it got to
                 \* line 136 and no request changed local_clicks since

vars == <<local, remote, pc, local_rows, idx, errors, resp, bot_clicks, tick0, failed0,
          call, valid, user_clicks, merged0>>

----------------------------------------------------------------------------
\* Tables

NoTable == [u \in {} |-> 0]
Has(t, u) == u \in DOMAIN t
Count(t, u) == IF Has(t, u) THEN t[u].clicks ELSE 0
Put(t, u, row) == [v \in DOMAIN t \cup {u} |-> IF v = u THEN row ELSE t[v]]
DeleteRows(t, ids) == [v \in DOMAIN t \ ids |-> t[v]]
Row(name, n) == [username |-> name, clicks |-> n]

----------------------------------------------------------------------------
\* check_webapp_signature and the request it checks
\*
\* An initData string is the sequence of its key=value fields; a value is a
\* string ("" blank), the hash value a digest (<<>> blank).  A digest is the
\* term <<"hmac", key, message>>: two digests are equal exactly when made
\* from the same key and the same message.

BOT_TOKEN == "T"
OtherToken == "X"

Hmac(key, msg) == <<"hmac", key, msg>>

\* str order of the field names
KeyRank(k) == CASE k = "auth_date" -> 1 [] k = "hash" -> 2 [] k = "user" -> 3

IsBlank(p) == IF p[1] = "hash" THEN p[2] = <<>> ELSE p[2] = ""

\* parse_qsl (keep_blank_values = False) then dict: blank fields are dropped,
\* a repeated key keeps its last value
ParseQsl(q) == SelectSeq(q, LAMBDA p : ~IsBlank(p))
ToDict(items) ==
    LET keys == {items[i][1] : i \in 1..Len(items)}
        last(k) == CHOOSE i \in 1..Len(items) :
                      /\ items[i][1] = k
                      /\ \A j \in (i + 1)..Len(items) : items[j][1] # k
    IN [k \in keys |-> items[last(k)][2]]

\* sorted(parsed_data.items(), key = itemgetter(0)), joined: the sequence of
\* the <<key, value>> pairs in key order
SortedItems(d) ==
    LET n == Cardinality(DOMAIN d)
        s == CHOOSE f \in [1..n -> DOMAIN d] :
                 \A i, j \in 1..n : i < j => KeyRank(f[i]) < KeyRank(f[j])
    IN [i \in 1..n |-> <<s[i], d[s[i]]>>]

DataCheckString(parsed) ==
    SortedItems([k \in DOMAIN parsed \ {"hash"} |-> parsed[k]])

CalculatedHash(token, parsed) ==
    Hmac(Hmac("WebAppData", token), DataCheckString(parsed))

HashPresent(token, init_data) == "hash" \in DOMAIN ToDict(ParseQsl(init_data))
check_webapp_signature(token, init_data) ==
    LET parsed_data == ToDict(ParseQsl(init_data))
    IN IF "hash" \notin DOMAIN parsed_data THEN FALSE
       ELSE CalculatedHash(token, parsed_data) = parsed_data["hash"]

\* json.loads of the user field, then user_obj["id"], int(), .get("username")
NotJson == [kind |-> "error", hasId |-> FALSE, intId |-> FALSE, id |-> 0,
            username |-> "Unknown"]
JsonUser(u, name) == [kind |-> "object", hasId |-> TRUE, intId |-> TRUE,
                      id |-> u, username |-> name]
JsonLoads(text) ==
    CASE text = "{\"id\":1}" -> JsonUser(1, "Unknown")
      [] text = "{\"id\":2}" -> JsonUser(2, "Unknown")
      [] text = "{\"id\":3}" -> JsonUser(3, "Unknown")
      [] text = "{\"id\":\"x\"}" ->
            [kind |-> "object", hasId |-> TRUE, intId |-> FALSE, id |-> 0,
             username |-> "Unknown"]
      [] text = "{\"username\":\"bob\"}" ->
            [kind |-> "object", hasId |-> FALSE, intId |-> FALSE, id |-> 0,
             username |-> "bob"]
      [] OTHER -> NotJson

UserTexts == {"{\"id\":3}",
              "{\"id\":\"x\"}",
              "{\"username\":\"bob\"}", "{oops", ""}

\* The requests tried: the fields a client sends, and how it signs them.
\*   "none"    no hash field          "blank"   hash=
\*   "good"    signed with BOT_TOKEN  "forged"  signed with another token
\*   "stale"   BOT_TOKEN's signature of the fields without the user field
\*   "twice"   a forged hash field followed by a good one
Signed(fields, how) ==
    LET d == ToDict(ParseQsl(fields))
        noUser == [k \in DOMAIN d \ {"user"} |-> d[k]]
    IN CASE how = "none" -> fields
         [] how = "blank" -> fields \o <<<<"hash", <<>>>>>>
         [] how = "good" -> <<<<"hash", CalculatedHash(BOT_TOKEN, d)>>>> \o fields
         [] how = "forged" -> fields \o <<<<"hash", CalculatedHash(OtherToken, d)>>>>
         [] how = "stale" -> fields \o <<<<"hash", CalculatedHash(BOT_TOKEN, noUser)>>>>
         [] how = "twice" -> <<<<"hash", CalculatedHash(OtherToken, d)>>>> \o fields
                              \o <<<<"hash", CalculatedHash(BOT_TOKEN, d)>>>>

Date == <<"auth_date", "1">>
AuthRequests ==
    {Signed(<<<<"user", t>>, Date>>, "good") : t \in UserTexts}
    \cup {Signed(<<Date, <<"user", "{\"id\":3}">>>>, how) :
             how \in {"none", "blank", "forged", "stale", "twice"}}
    \cup {Signed(<<Date>>, "good"),
          Signed(<<<<"user", "{oops">>, <<"user", "{\"id\":3}">>>>, "good")}

Response(ep, status, detail, u, n) ==
    [ep |-> ep, status |-> status, detail |-> detail, user_id |-> u, clicks |-> n]

\* What auth_endpoint answers to data = {"initData": init_data} (has), or to a
\* body without the key (~has), up to line 165: the status and detail of the
\* HTTPException raised (500: the KeyError or ValueError of line 164), or 200
\* with the user the database code is entered with.
AuthOutcome(has, init_data) ==
    LET parsed_data == ToDict(ParseQsl(init_data))
        user_obj == JsonLoads(parsed_data["user"])
    IN IF ~has \/ init_data = <<>>
            THEN Response("auth", 400, "Missing initData", 0, 0)
       ELSE IF ~check_webapp_signature(BOT_TOKEN, init_data)
            THEN Response("auth", 403, "Invalid auth", 0, 0)
       ELSE IF "user" \notin DOMAIN parsed_data
            THEN Response("auth", 400, "Missing user data", 0, 0)
       ELSE IF user_obj.kind = "error"
            THEN Response("auth", 400, "Invalid user data format", 0, 0)
       ELSE IF ~user_obj.hasId \/ ~user_obj.intId
            THEN Response("auth", 500, "Internal Server Error", 0, 0)
       ELSE Response("auth", 200, "", user_obj.id, 0)

----------------------------------------------------------------------------
\* Statements on the two tables

\* UPDATE ... SET clicks = clicks + 1, and the INSERT when rowcount = 0
IncrementFromZero(t, u) ==
    IF Has(t, u) THEN Put(t, u, Row(t[u].username, t[u].clicks + 1))
    ELSE Put(t, u, Row("Unknown", 0))
Increment(t, u) ==
    IF Has(t, u) THEN Put(t, u, Row(t[u].username, t[u].clicks + 1))
    ELSE Put(t, u, Row("Unknown", 1))

\* SELECT clicks ... ; INSERT ... VALUES (?, ?, 0) when there is no row
ReadOrReset(t, u, name) == Put(t, u, Row(name, 0))
ReadOrInit(t, u, name) == IF Has(t, u) THEN t ELSE Put(t, u, Row(name, 0))

\* new_clicks = remote_row[0] + local_clicks
MergedClicksOverwrite(remote_clicks, local_clicks) == local_clicks
MergedClicks(remote_clicks, local_clicks) == remote_clicks + local_clicks

\* INSERT ... ON CONFLICT(user_id) DO UPDATE SET clicks = excluded.clicks
Upsert(t, u, name, n) ==
    IF Has(t, u) THEN Put(t, u, Row(t[u].username, n)) ELSE Put(t, u, Row(name, n))

\* local table t after the UPSERT loop of lines 126-134 over the rows `ids` of r
Refreshed(t, r, ids) ==
    [u \in DOMAIN t \cup ids |->
        IF u \in ids THEN Upsert(t, u, r[u].username, r[u].clicks)[u] ELSE t[u]]

\* SELECT * FROM local_clicks ORDER BY clicks DESC LIMIT 100: the possible
\* results, rows of equal clicks in any order
Min(a, b) == IF a < b THEN a ELSE b
Snapshots(t) ==
    LET n == Cardinality(DOMAIN t)
        orders == {f \in [1..n -> DOMAIN t] :
                      /\ \A i, j \in 1..n : i # j => f[i] # f[j]
                      /\ \A i, j \in 1..n : i < j => t[f[i]].clicks >= t[f[j]].clicks}
    IN {[i \in 1..Min(n, LIMIT) |->
            [user_id |-> f[i], username |-> t[f[i]].username, clicks |-> t[f[i]].clicks]]
        : f \in orders}

RowIds(rows) == {rows[i].user_id : i \in 1..Len(rows)}

----------------------------------------------------------------------------
\* Request handlers: each runs while sync_databases sleeps

NoTick == [on |-> FALSE, local |-> NoTable, remote |-> NoTable]
NoCall == [token |-> "", init_data |-> <<>>]
NoAnswer == -1

TypeOK ==
    /\ DOMAIN local \subseteq Users
    /\ DOMAIN remote \subseteq Users
    /\ \A u \in DOMAIN local : local[u].clicks \in 0..IntMax
    /\ \A u \in DOMAIN remote : remote[u].clicks \in 0..IntMax
    /\ pc \in {"sleep", "select", "merge", "commit", "delete", "refresh"}
    /\ idx \in 0..LIMIT
    /\ errors \in BOOLEAN
    /\ resp \in {"", "ok", "rejected"}
    /\ bot_clicks \in 0..MaxBot
    /\ Len(local_rows) <= LIMIT
    /\ tick0.on = (pc \in {"merge", "commit", "delete", "refresh"})
    /\ valid \in {"pending", "True", "False"}
    /\ user_clicks \in {NoAnswer} \cup 0..IntMax
    /\ merged0 \subseteq Users

Init ==
    /\ local = NoTable
    /\ remote = NoTable
    /\ pc = "sleep"
    /\ local_rows = <<>>
    /\ idx = 0
    /\ errors = FALSE
    /\ resp = ""
    /\ bot_clicks = 0
    /\ tick0 = NoTick
    /\ failed0 = NoTick
    /\ call = NoCall
    /\ valid = "pending"
    /\ user_clicks = NoAnswer
    /\ merged0 = {}

\* a handler's commit: local_clicks becomes newLocal
HandledWriteThrough(newLocal) ==
    /\ local' = newLocal
    /\ remote' = newLocal
    /\ failed0' = IF newLocal = local THEN failed0 ELSE NoTick
    /\ merged0' = IF newLocal = local THEN merged0 ELSE {}
    /\ UNCHANGED <<pc, local_rows, idx, errors, tick0, call, valid>>
Handled(newLocal) ==
    /\ local' = newLocal
    /\ failed0' = IF newLocal = local THEN failed0 ELSE NoTick
    /\ merged0' = IF newLocal = local THEN merged0 ELSE {}
    /\ UNCHANGED <<remote, pc, local_rows, idx, errors, tick0, call, valid>>

auth_endpoint(has, init_data) ==
    /\ pc = "sleep"
    /\ LET out == AuthOutcome(has, init_data)
           username == JsonLoads(ToDict(ParseQsl(init_data))["user"]).username
       IN /\ resp' = IF out.status = 200 THEN "ok" ELSE "rejected"
          /\ IF out.status = 200
             THEN /\ Handled(ReadOrInit(local, out.user_id, username))
                  /\ user_clicks' = IF Has(local, out.user_id)
                                    THEN local[out.user_id].clicks ELSE 0
             ELSE /\ Handled(local)
                  /\ user_clicks' = NoAnswer
    /\ UNCHANGED bot_clicks

record_click(u) ==
    /\ pc = "sleep"
    /\ Count(local, u) < IntMax
    /\ Handled(Increment(local, u))
    /\ user_clicks' = NoAnswer
    /\ UNCHANGED <<resp, bot_clicks>>

\* data is the JSON text of the message: json.loads comes first, so a message
\* whose data is no JSON ("{oops") raises before the UPDATE and writes nothing;
\* one without "clicks" ("{}") raises at line 211, after the commit.
handle_webapp_data(u, data) ==
    /\ pc = "sleep"
    /\ user_clicks' = NoAnswer
    /\ IF data = "{oops"
       THEN Handled(local) /\ UNCHANGED <<resp, bot_clicks>>
       ELSE /\ bot_clicks < MaxBot
            /\ Count(local, u) < IntMax
            /\ Handled(Increment(local, u))
            /\ bot_clicks' = bot_clicks + 1
            /\ UNCHANGED resp

\* SELECT username, clicks FROM local_clicks ORDER BY clicks DESC: reads only
get_stats ==
    /\ pc = "sleep"
    /\ user_clicks' = NoAnswer
    /\ Handled(local)
    /\ UNCHANGED <<resp, bot_clicks>>

----------------------------------------------------------------------------
\* sync_databases: one pass of its loop, statement by statement

\* except Exception (line 139): the pass is abandoned, the loop goes on to sleep
AfterExceptUncaught == "dead"
AfterExcept == "sleep"

\* in_merge: the exception left the for loop of lines 103-114
Raise(in_merge) ==
    /\ pc' = AfterExcept
    /\ idx' = 0
    /\ errors' = TRUE
    /\ failed0' = IF in_merge THEN tick0 ELSE NoTick
    /\ tick0' = NoTick
    /\ local_rows' = <<>>
    /\ merged0' = {}
    /\ UNCHANGED <<resp, bot_clicks, call, valid, user_clicks>>

\* line 141 returns: the next pass of the loop begins (lines 96-98)
Wake ==
    /\ pc = "sleep"
    /\ pc' = "select"
    /\ resp' = ""
    /\ bot_clicks' = 0
    /\ user_clicks' = NoAnswer
    /\ UNCHANGED <<local, remote, local_rows, idx, errors, tick0, failed0, call, valid, merged0>>

\* lines 100-102, 137-138: the snapshot; an empty one ends the pass
SyncStart ==
    /\ pc = "select"
    /\ \E rows \in Snapshots(local) :
          /\ local_rows' = rows
          /\ IF rows # <<>>
             THEN /\ pc' = "merge"
                  /\ idx' = 1
                  /\ tick0' = [on |-> TRUE, local |-> local, remote |-> remote]
                  /\ UNCHANGED failed0
             ELSE /\ pc' = "sleep"
                  /\ idx' = 0
                  /\ tick0' = NoTick
                  /\ failed0' = NoTick
    /\ merged0' = {}
    /\ UNCHANGED <<local, remote, errors, resp, bot_clicks, call, valid, user_clicks>>

\* line 100 raises (the local database cannot be read)
SyncStartFails ==
    /\ pc = "select"
    /\ Raise(FALSE)
    /\ UNCHANGED <<local, remote>>

\* lines 104-114 for the row at idx.  The UPDATE is handed new_clicks: a value
\* above IntMax does not fit the INTEGER parameter and the call raises.
MergeRow ==
    /\ pc = "merge"
    /\ LET row == local_rows[idx]
           u == row.user_id
           new_clicks == MergedClicks(Count(remote, u), row.clicks)
       IN IF Has(remote, u) /\ new_clicks > IntMax
          THEN Raise(TRUE) /\ UNCHANGED <<local, remote>>
          ELSE /\ remote' = IF Has(remote, u)
                            THEN Put(remote, u, Row(remote[u].username, new_clicks))
                            ELSE Put(remote, u, Row(row.username, row.clicks))
               /\ IF idx < Len(local_rows)
                  THEN idx' = idx + 1 /\ pc' = "merge"
                  ELSE idx' = 0 /\ pc' = "commit"
               /\ UNCHANGED <<local, local_rows, errors, resp, bot_clicks,
                              tick0, failed0, call, valid, user_clicks, merged0>>

\* the SELECT, UPDATE or INSERT of the row at idx raises: the rows before it
\* stay written in remote_conn's open transaction (nothing rolls it back)
MergeRowFailsAfterDelete ==
    /\ pc = "merge"
    /\ Raise(TRUE)
    /\ local' = DeleteRows(local, RowIds(local_rows))
    /\ UNCHANGED remote
MergeRowFails ==
    /\ pc = "merge"
    /\ Raise(TRUE)
    /\ UNCHANGED <<local, remote>>

\* line 115
RemoteCommit ==
    /\ pc = "commit"
    /\ pc' = "delete"
    /\ UNCHANGED <<local, remote, local_rows, idx, errors, resp, bot_clicks,
                   tick0, failed0, call, valid, user_clicks, merged0>>

RemoteCommitFails ==
    /\ pc = "commit"
    /\ Raise(FALSE)
    /\ UNCHANGED <<local, remote>>

\* lines 118-121
LocalDelete ==
    /\ pc = "delete"
    /\ local' = DeleteRows(local, RowIds(local_rows))
    /\ pc' = "refresh"
    /\ UNCHANGED <<remote, local_rows, idx, errors, resp, bot_clicks,
                   tick0, failed0, call, valid, user_clicks, merged0>>

\* line 120 raises: nothing is deleted
LocalDeleteFails ==
    /\ pc = "delete"
    /\ Raise(FALSE)
    /\ UNCHANGED <<local, remote>>

\* lines 124-136
Refresh ==
    /\ pc = "refresh"
    /\ local' = Refreshed(local, remote, DOMAIN remote)
    /\ pc' = "sleep"
    /\ tick0' = NoTick
    /\ failed0' = NoTick
    /\ local_rows' = <<>>
    /\ merged0' = RowIds(local_rows)
    /\ UNCHANGED <<remote, idx, errors, resp, bot_clicks, call, valid, user_clicks>>

\* line 124 raises: the remote table cannot be read
RefreshFails ==
    /\ pc = "refresh"
    /\ Raise(FALSE)
    /\ UNCHANGED <<local, remote>>

----------------------------------------------------------------------------

Requests ==
    \/ \E init_data \in AuthRequests : auth_endpoint(TRUE, init_data)
    \/ auth_endpoint(FALSE, <<>>)
    \/ \E u \in Users : record_click(u)
    \/ \E u \in BotUsers, data \in BotData : handle_webapp_data(u, data)
    \/ get_stats

Sync ==
    \/ Wake
    \/ SyncStart
    \/ MergeRow
    \/ RemoteCommit
    \/ LocalDelete
    \/ Refresh

SyncFails ==
    \/ SyncStartFails
    \/ MergeRowFails
    \/ RemoteCommitFails
    \/ LocalDeleteFails
    \/ RefreshFails

Next == Requests \/ Sync \/ SyncFails

Spec == Init /\ [][Next]_vars

\* The event loop resumes the sync task after each sleep and runs it to its
\* next await; whether a statement raises is not up to the loop.
FairSpec == Init /\ [][Next]_vars /\ WF_vars(Sync \/ SyncFails)

\* The same loop when no call to either database fails by itself
ReliableSpec == Init /\ [][Requests \/ Sync]_vars /\ WF_vars(Sync)

----------------------------------------------------------------------------
\* check_webapp_signature taken on its own: one call, with a token and an
\* initData string drawn from the payloads below.

Tokens == {BOT_TOKEN, OtherToken}
DateValues == {"1", "2", ""}
UserValues == {"{\"id\":3}", "{oops", ""}
Pairs == {<<"auth_date", v>> : v \in DateValues} \cup {<<"user", v>> : v \in UserValues}

\* the fields of a payload other than hash: up to two, of different keys
Seq2(S) == {<<x, y>> : x \in S, y \in S}
FieldLists ==
    {<<>>} \cup {<<p>> : p \in Pairs}
           \cup {pq \in Seq2(Pairs) : pq[1][1] # pq[2][1]}

\* The digest the docstring's algorithm (steps 2-5) gives for the fields as
\* they are sent, each key=value pair of them, in key order.
SentHash(token, fields) ==
    LET d == [k \in {fields[i][1] : i \in 1..Len(fields)} |->
                 fields[CHOOSE i \in 1..Len(fields) : fields[i][1] = k][2]]
    IN Hmac(Hmac("WebAppData", token), SortedItems(d))

\* the field lists that differ from `fields` in the value of one field
Mutations(fields) ==
    {g \in FieldLists :
        /\ Len(g) = Len(fields)
        /\ \A i \in 1..Len(g) : g[i][1] = fields[i][1]
        /\ Cardinality({i \in 1..Len(g) : g[i][2] # fields[i][2]}) = 1}

\* the hash values tried with `fields`: a blank one, the digest of the fields
\* under either token, and the digest of the fields before one value changed
HashValues(token, fields) ==
    {<<>>} \cup {SentHash(t, fields) : t \in Tokens}
           \cup {SentHash(token, g) : g \in Mutations(fields)}

Payloads(token, fields) ==
    {fields} \cup {fields \o <<<<"hash", h>>>> : h \in HashValues(token, fields)}
             \cup {<<<<"hash", h>>>> \o fields : h \in HashValues(token, fields)}

VerifyCalls ==
    UNION {{[token |-> t, init_data |-> q] : q \in Payloads(t, f)} :
              t \in Tokens, f \in FieldLists}

VerifyInit ==
    /\ local = NoTable
    /\ remote = NoTable
    /\ pc = "sleep"
    /\ local_rows = <<>>
    /\ idx = 0
    /\ errors = FALSE
    /\ resp = ""
    /\ bot_clicks = 0
    /\ tick0 = NoTick
    /\ failed0 = NoTick
    /\ call \in VerifyCalls
    /\ valid = "pending"
    /\ user_clicks = NoAnswer
    /\ merged0 = {}

\* lines 68-84: the call returns
Verify ==
    /\ valid = "pending"
    /\ valid' = IF check_webapp_signature(call.token, call.init_data)
                THEN "True" ELSE "False"
    /\ UNCHANGED <<local, remote, pc, local_rows, idx, errors, resp, bot_clicks,
                   tick0, failed0, call, user_clicks, merged0>>

VerifySpec == VerifyInit /\ [][Verify]_vars

----------------------------------------------------------------------------
\* Claims

\* a click of user u is written, by either handler
Clicks(u) == record_click(u) \/ \E data \in BotData \ {"{oops"} : handle_webapp_data(u, data)
Total(l, r, u) == Count(l, u) + Count(r, u)

\* C1: as long as no pass has raised, remote.count + local.count of every user
\* is the number of clicks recorded for that user: a click adds exactly one to
\* the sum of its user and leaves the other sums alone, and a pass that ends
\* successfully leaves every sum as it found it.
C1_SumIsClicks ==
    [][~errors' =>
        /\ \A u \in Users : Clicks(u) =>
              /\ Total(local', remote', u) = Total(local, remote, u) + 1
              /\ \A v \in Users \ {u} : Total(local', remote', v) = Total(local, remote, v)
        /\ Refresh => \A u \in Users :
              Total(local', remote', u) = Total(tick0.local, tick0.remote, u)]_vars

\* C2: a pass that ends successfully leaves, for every user of its snapshot,
\* remote.count = R + L, with R the remote count (0 without a row) and L the
\* local count the pass started from.
C2_RemoteIsSum ==
    [][Refresh => \A u \in RowIds(local_rows) :
          /\ Has(remote', u)
          /\ remote'[u].clicks = Count(tick0.remote, u) + tick0.local[u].clicks]_vars

\* a pass has merged, committed and deleted, for a user with R = 1 and L = 1
C2_Witness ==
    /\ pc = "refresh"
    /\ \E u \in RowIds(local_rows) :
          /\ Count(tick0.remote, u) = 1
          /\ Count(tick0.local, u) = 1
          /\ Count(remote, u) = 2

\* C3: when a pass ends successfully, no user of its snapshot has a row in
\* the local table.
C3_MergedRowsGone ==
    [][Refresh => \A u \in RowIds(local_rows) : ~Has(local', u)]_vars

\* C4: when the merge raises at the row of user A after the rows of users B
\* before it went through, the pass ends with A's local row as it was, B's
\* local row gone and B's delta in the remote table.
C4_PartialFailure ==
    [][(pc = "merge" /\ pc' = "sleep" /\ idx > 1) =>
          LET A == local_rows[idx].user_id
          IN /\ Has(local', A) /\ local'[A] = tick0.local[A]
             /\ \A j \in 1..(idx - 1) :
                   LET B == local_rows[j].user_id
                   IN /\ ~Has(local', B)
                      /\ Count(remote', B) = Total(tick0.local, tick0.remote, B)]_vars

\* C5: when a pass ends successfully after the pass before it broke in the
\* merge loop, with no click in between, every user of its snapshot has
\* remote.count = the remote count + the local count from before the broken
\* pass.
C5_RetryCountsOnce ==
    [][(Refresh /\ failed0.on /\ tick0.local = failed0.local) =>
          \A u \in RowIds(local_rows) :
             Count(remote', u) = Total(failed0.local, failed0.remote, u)]_vars

\* C7: a click through either handler leaves its user's local row present
\* with one more click than before (1 when there was no row) and every other
\* local row as it was, whatever clicks came before it.
C7_IncrementsAddUp ==
    [][\A u \in Users : Clicks(u) =>
          /\ Has(local', u)
          /\ local'[u].clicks = Count(local, u) + 1
          /\ \A v \in Users \ {u} :
                Has(local', v) = Has(local, v) /\ Count(local', v) = Count(local, v)]_vars

\* two clicks of user 1 since the last pass, one through the bot and one
\* through the HTTP endpoint (no pass has merged or raised: every click so far
\* came after the sync task last went to sleep)
C7_Witness ==
    /\ pc = "sleep"
    /\ bot_clicks = 1
    /\ Has(local, 1) /\ local[1].clicks = 2
    /\ remote = NoTable
    /\ ~errors

\* C8: the sync loop goes on forever: it is asleep again and again, and a new
\* pass begins again and again, whatever the passes before it ran into.
C8_LoopNeverEnds == ([]<>(pc = "sleep")) /\ ([]<>(pc = "select"))

\* a pass begins after a pass that raised
C8_Witness == pc = "select" /\ errors

RejectedAttempt(has, init_data) ==
    LET d == ToDict(ParseQsl(init_data))
    IN \/ ~has
       \/ init_data = <<>>
       \/ "hash" \notin DOMAIN d
       \/ d["hash"] # CalculatedHash(BOT_TOKEN, d)
       \/ "user" \notin DOMAIN d
       \/ JsonLoads(d["user"]).kind = "error"
RejectedRequests == {q \in AuthRequests : RejectedAttempt(TRUE, q)}
C10_RejectionWritesNothing ==
    [][(pc = "sleep" /\ <<local, remote>>' # <<local, remote>>) =>
          /\ ~auth_endpoint(FALSE, <<>>)
          /\ \A q \in RejectedRequests : ~auth_endpoint(TRUE, q)]_vars

\* an attempt has been rejected while both tables hold rows
C10_Witness == resp = "rejected" /\ DOMAIN local # {} /\ DOMAIN remote # {}

\* C11: a call of check_webapp_signature on a payload with no hash field
\* returns False, and on a payload with one hash field it returns True exactly
\* when that field is the HMAC-SHA256, keyed by HMAC-SHA256("WebAppData",
\* token), of the other key=value pairs in key order: True for every payload
\* signed so, False when the hash or the value of a field differs.
OtherFields(q) == SelectSeq(q, LAMBDA p : p[1] # "hash")
HashFields(q) == SelectSeq(q, LAMBDA p : p[1] = "hash")
C11_VerifyCorrect ==
    valid # "pending" =>
        LET fields == OtherFields(call.init_data)
            hashes == HashFields(call.init_data)
        IN /\ hashes = <<>> => valid = "False"
           /\ hashes # <<>> =>
                 (valid = "True" <=> hashes[1][2] = SentHash(call.token, fields))

\* C12: a call of auth_endpoint that gets to the database code (lines
\* 167-177) leaves local_clicks as it is and returns the row's count when the
\* user has a row, and otherwise adds the row with 0 clicks, leaves the other
\* rows as they are and returns 0; when the request handled just before it
\* was such a call too, it returns the same count again and changes nothing.
OkRequests == {q \in AuthRequests : AuthOutcome(TRUE, q).status = 200}
C12_ReadOrInit ==
    [][\A q \in OkRequests :
          (pc = "sleep" /\ user_clicks' # NoAnswer /\ auth_endpoint(TRUE, q)) =>
             LET u == AuthOutcome(TRUE, q).user_id
             IN /\ Has(local, u) => local' = local /\ user_clicks' = local[u].clicks
                /\ ~Has(local, u) =>
                      /\ Has(local', u) /\ local'[u].clicks = 0 /\ user_clicks' = 0
                      /\ DeleteRows(local', {u}) = local
                /\ user_clicks # NoAnswer =>
                      local' = local /\ user_clicks' = user_clicks]_vars

\* the call has returned the count 1 of a row that holds 1 click
C12_Witness ==
    /\ user_clicks = 1 /\ resp = "ok"
    /\ Has(local, 3) /\ local[3].clicks = 1

\* C13: the remote table changes only in the merge loop of a pass of
\* sync_databases: no step of record_click, handle_webapp_data, auth_endpoint
\* or get_stats changes it (none of them holds a statement on remote_conn).
C13_RemoteOnlyInTick ==
    [][remote' # remote => (pc = "merge" /\ pc' # "sleep" /\ MergeRow)]_vars

\* since the last pass, which left rows in the remote table, auth_endpoint has
\* answered and handle_webapp_data has written a click
C13_Witness ==
    /\ pc = "sleep" /\ remote # NoTable
    /\ resp = "ok" /\ bot_clicks = 1

\* C14: a step of a pass of sync_databases leaves the local row of every user
\* outside the snapshot of that pass as it was, present with the same count.
C14_OutsideSnapshotUntouched ==
    [][(pc \in {"merge", "commit", "delete", "refresh"}) =>
          \A u \in DOMAIN local \ RowIds(local_rows) :
             (Has(local', u) /\ local'[u].clicks = local[u].clicks)]_vars

\* C15: when a pass is abandoned in its merge phase, at a row of the merge loop
\* or at the remote commit, local_clicks is left as the pass found it.
C15_RemoteFailureKeepsLocal ==
    [][(pc \in {"merge", "commit"} /\ pc' = "sleep") =>
          (local' = local /\ local' = tick0.local)]_vars

\* a pass has been abandoned in the merge loop after writing a row to the
\* remote table, and local_clicks holds the rows it found
C15_Witness ==
    /\ pc = "sleep" /\ errors
    /\ failed0.on /\ local = failed0.local /\ local # NoTable
    /\ remote # failed0.remote

\* C16: a pass that finds local_clicks empty changes neither table and goes
\* back to sleep; and a snapshot taken right after a pass that merged rows,
\* with no request writing local_clicks in between, holds no click of a user
\* of that pass, whose clicks are all in the remote table by then.
C16_EmptyOrUnfolded ==
    [][pc = "select" =>
          /\ local = NoTable =>
                (local' = local /\ remote' = remote /\ pc' = "sleep")
          /\ \A i \in 1..Len(local_rows') :
                local_rows'[i].user_id \in merged0 => local_rows'[i].clicks = 0]_vars

\* C17: the snapshot of a pass holds at most LIMIT rows, and its users are
\* exactly those of the first LIMIT rows of local_clicks in the order of
\* clicks descending, then user_id ascending.
RanksBefore(t, u, v) ==
    \/ t[u].clicks > t[v].clicks
    \/ t[u].clicks = t[v].clicks /\ u < v
TopN(t) == {u \in DOMAIN t : Cardinality({v \in DOMAIN t : RanksBefore(t, v, u)}) < LIMIT}
C17_SnapshotIsTopN ==
    [][(pc = "select" /\ pc' = "merge") =>
          (Len(local_rows') <= LIMIT /\ RowIds(local_rows') = TopN(local))]_vars

\* C18: while a pass is between two rows of its merge loop, a click or an
\* authentication request can be handled.
C18_ServedBetweenRows ==
    (pc = "merge" /\ idx > 1) =>
        ENABLED (\/ \E u \in Users : record_click(u)
                 \/ \E q \in AuthRequests : auth_endpoint(TRUE, q))

====
